---- MODULE Spec2Model ----
(***************************************************************************)
(* Model of src/replication/ng/model/policy.go: the replication Policy and *)
(* its validation method Policy.Valid, which reports every violation       *)
(* through the validation accumulator v (v.SetError appends one error).    *)
(*                                                                         *)
(* A Go slice is modelled as [isNil, elems] (len of a nil slice is 0 and   *)
(* ranging over it visits nothing), a Go pointer as a record with an isNil *)
(* field; dereferencing a nil pointer panics.  Only the fields Valid reads *)
(* are kept in the Policy record.                                          *)
(***************************************************************************)
EXTENDS Integers, Sequences, FiniteSets, TLC

\* ---- const definition ---------------------------------------------------
FilterTypeResource == "resource"
FilterTypeName == "name"
FilterTypeTag == "tag"
FilterTypeLabel == "label"

TriggerTypeManual == "manual"
TriggerTypeScheduled == "scheduled"
TriggerTypeEventBased == "event_based"

\* ---- bounds and input samples --------------------------------------------
MaxNamespaces == 3
MaxFilters == 2

NameSamples == {"", "p1"}
RegistryIDSamples == {0, 5, 7}
NamespaceSamples == {"", "library"}
FilterTypeSamples ==
    {FilterTypeResource, FilterTypeName, FilterTypeTag, FilterTypeLabel, "bogus"}
FilterValueSamples == {"library/**"}
TriggerTypeSamples ==
    {TriggerTypeManual, TriggerTypeScheduled, TriggerTypeEventBased, "bogus"}
CronSamples == {"", "0 0 * * *"}

SeqsUpTo(S, n) == UNION {[1..k -> S] : k \in 0..n}

\* ---- data types -----------------------------------------------------------
NilSlice == [isNil |-> TRUE, elems |-> <<>>]
Slices(S, n) == {NilSlice} \cup {[isNil |-> FALSE, elems |-> s] : s \in SeqsUpTo(S, n)}

len(slice) == Len(slice.elems)

NilPointer == [isNil |-> TRUE]

\* Value is an untyped payload; it is sampled as a string and, for two of the
\* types, as nil
Filter ==
    {[isNil |-> FALSE, Type |-> t, Value |-> x] :
        t \in FilterTypeSamples, x \in FilterValueSamples}
        \cup {[isNil |-> FALSE, Type |-> t, Value |-> "<nil>"] :
                t \in {FilterTypeName, "bogus"}}

TriggerSettings == {[isNil |-> FALSE, Cron |-> c] : c \in CronSamples}

Trigger ==
    {[isNil |-> FALSE, Type |-> t, Settings |-> s] :
        t \in TriggerTypeSamples, s \in TriggerSettings \cup {NilPointer}}

Policy ==
    [Name : NameSamples,
     SrcRegistryID : RegistryIDSamples,
     SrcNamespaces : Slices(NamespaceSamples, MaxNamespaces),
     DestRegistryID : RegistryIDSamples,
     Filters : Slices(Filter \cup {NilPointer}, MaxFilters),
     Trigger : Trigger \cup {NilPointer}]

\* one entry of v.Errors, as v.SetError(field, message) appends it
Error(field, message) == [Key |-> field, Message |-> message]

VARIABLES p, errors, pc

vars == <<p, errors, pc>>

\* p is the receiver of Valid, errors is v.Errors, pc is the position of the
\* call: before it, returned, or ended by a panic
TypeOK ==
    /\ p \in Policy
    /\ pc \in {"call", "returned", "panicked"}
    /\ \A i \in DOMAIN errors : DOMAIN errors[i] = {"Key", "Message"}

\* ---- Policy.Valid, check by check ----------------------------------------
MsgCannotBeEmpty == "cannot be empty"
MsgRegistry == "one of them should be empty and the other one shouldn't be empty"
MsgEmptyNamespace == "cannot contain empty namespace"
MsgInvalidFilterType == "invalid filter type"
MsgInvalidTriggerType == "invalid trigger type"
MsgCronEmpty ==
    "the cron string cannot be empty when the trigger type is " \o TriggerTypeScheduled

\* mutant: the name check with its condition inverted
NameErrorsInverted(q) ==
    IF q.Name # "" THEN <<Error("name", MsgCannotBeEmpty)>> ELSE <<>>

NameErrors(q) ==
    IF q.Name = "" THEN <<Error("name", MsgCannotBeEmpty)>> ELSE <<>>

\* mutant: the registry check without its both-local case
RegistryErrorsBothRemoteOnly(q) ==
    IF q.SrcRegistryID # 0 /\ q.DestRegistryID # 0
    THEN <<Error("src_registry_id, dest_registry_id", MsgRegistry)>>
    ELSE <<>>

RegistryErrors(q) ==
    IF \/ (q.SrcRegistryID # 0 /\ q.DestRegistryID # 0)
       \/ (q.SrcRegistryID = 0 /\ q.DestRegistryID = 0)
    THEN <<Error("src_registry_id, dest_registry_id", MsgRegistry)>>
    ELSE <<>>

\* mutant: the namespace loop without its break
RECURSIVE ScanNamespacesNoBreak(_, _)
ScanNamespacesNoBreak(ns, i) ==
    IF i > Len(ns) THEN <<>>
    ELSE IF ns[i] = ""
         THEN <<Error("src_namespaces", MsgEmptyNamespace)>>
                  \o ScanNamespacesNoBreak(ns, i + 1)
    ELSE ScanNamespacesNoBreak(ns, i + 1)

RECURSIVE ScanNamespaces(_, _)
ScanNamespaces(ns, i) ==
    IF i > Len(ns) THEN <<>>
    ELSE IF ns[i] = "" THEN <<Error("src_namespaces", MsgEmptyNamespace)>>
    ELSE ScanNamespaces(ns, i + 1)

SrcNamespacesErrors(q) ==
    IF len(q.SrcNamespaces) = 0
    THEN <<Error("src_namespaces", MsgCannotBeEmpty)>>
    ELSE ScanNamespaces(q.SrcNamespaces.elems, 1)

InvalidFilterType(t) ==
    /\ t # FilterTypeResource
    /\ t # FilterTypeName
    /\ t # FilterTypeTag
    /\ t # FilterTypeLabel

\* the range loop over p.Filters: filter.Type dereferences the entry, so a
\* nil entry reached by the loop panics
RECURSIVE ScanFilters(_, _)
ScanFilters(fs, i) ==
    IF i > Len(fs) THEN [errors |-> <<>>, panicked |-> FALSE]
    ELSE IF fs[i].isNil THEN [errors |-> <<>>, panicked |-> TRUE]
    ELSE IF InvalidFilterType(fs[i].Type)
         THEN [errors |-> <<Error("filters", MsgInvalidFilterType)>>, panicked |-> FALSE]
    ELSE ScanFilters(fs, i + 1)

FiltersResult(q) == ScanFilters(q.Filters.elems, 1)

InvalidTriggerType(t) ==
    /\ t # TriggerTypeManual
    /\ t # TriggerTypeScheduled
    /\ t # TriggerTypeEventBased

\* mutant: the cron check without its test of the trigger type
CronMissingAnyType(t) ==
    t.Settings.isNil \/ t.Settings.Cron = ""

CronMissing(t) ==
    /\ t.Type = TriggerTypeScheduled
    /\ (t.Settings.isNil \/ t.Settings.Cron = "")

TriggerErrors(q) ==
    IF q.Trigger.isNil THEN <<>>
    ELSE (IF InvalidTriggerType(q.Trigger.Type)
          THEN <<Error("trigger", MsgInvalidTriggerType)>> ELSE <<>>)
         \o (IF CronMissing(q.Trigger)
             THEN <<Error("trigger", MsgCronEmpty)>> ELSE <<>>)

\* the whole of Policy.Valid: what v.Errors holds when the call ends, and
\* whether it ended by a panic instead of returning
ValidResult(q) ==
    LET f == FiltersResult(q)
        before == NameErrors(q) \o RegistryErrors(q) \o SrcNamespacesErrors(q) \o f.errors
    IN  IF f.panicked
        THEN [errors |-> before, panicked |-> TRUE]
        ELSE [errors |-> before \o TriggerErrors(q), panicked |-> FALSE]

\* ---- the state machine ---------------------------------------------------
Init ==
    /\ p \in Policy
    /\ errors = <<>>
    /\ pc = "call"

Valid ==
    /\ pc = "call"
    /\ LET r == ValidResult(p)
       IN  /\ errors' = r.errors
           /\ pc' = IF r.panicked THEN "panicked" ELSE "returned"
    /\ UNCHANGED p

Next == Valid

Spec == Init /\ [][Next]_vars

\* ---- what a caller finds in the accumulator --------------------------------
Terminated == pc # "call"

Has(field, message) == \E i \in DOMAIN errors : errors[i] = Error(field, message)

Count(field) == Cardinality({i \in DOMAIN errors : errors[i].Key = field})

Keys == [i \in DOMAIN errors |-> errors[i].Key]

FldRegistry == "src_registry_id, dest_registry_id"

BothOrNeitherLocal(q) ==
    \/ (q.SrcRegistryID = 0 /\ q.DestRegistryID = 0)
    \/ (q.SrcRegistryID # 0 /\ q.DestRegistryID # 0)

HasEmptyNamespace(q) ==
    \E i \in DOMAIN q.SrcNamespaces.elems : q.SrcNamespaces.elems[i] = ""

\* some Filter of the sequence carries a Type outside the four filter types
\* (a nil entry carries no Type at all)
HasBadFilter(q) ==
    \E i \in DOMAIN q.Filters.elems :
        /\ ~q.Filters.elems[i].isNil
        /\ q.Filters.elems[i].Type \notin
              {FilterTypeResource, FilterTypeName, FilterTypeTag, FilterTypeLabel}

BadTriggerType(q) ==
    /\ ~q.Trigger.isNil
    /\ q.Trigger.Type \notin
          {TriggerTypeManual, TriggerTypeScheduled, TriggerTypeEventBased}

ScheduledWithoutCron(q) ==
    /\ ~q.Trigger.isNil
    /\ q.Trigger.Type = TriggerTypeScheduled
    /\ (q.Trigger.Settings.isNil \/ q.Trigger.Settings.Cron = "")

WellFormed(q) ==
    /\ q.Name # ""
    /\ ~BothOrNeitherLocal(q)
    /\ len(q.SrcNamespaces) > 0
    /\ ~HasEmptyNamespace(q)
    /\ ~HasBadFilter(q)
    /\ ~BadTriggerType(q)
    /\ ~ScheduledWithoutCron(q)

\* the fields of the errors that apply to q, in the order of the checks
ApplicableKeys(q) ==
    (IF q.Name = "" THEN <<"name">> ELSE <<>>)
    \o (IF BothOrNeitherLocal(q) THEN <<FldRegistry>> ELSE <<>>)
    \o (IF len(q.SrcNamespaces) = 0 \/ HasEmptyNamespace(q)
        THEN <<"src_namespaces">> ELSE <<>>)
    \o (IF HasBadFilter(q) THEN <<"filters">> ELSE <<>>)
    \o (IF BadTriggerType(q) \/ ScheduledWithoutCron(q) THEN <<"trigger">> ELSE <<>>)

\* ---- claims ------------------------------------------------------------------

\* C1: Policy.Valid reports zero errors if and only if the policy is
\* well-formed (name, exactly one local registry, namespaces, filter types
\* and trigger all in order).
C1_ZeroErrorsIffWellFormed ==
    Terminated => (errors = <<>> <=> WellFormed(p))

\* C1 on the calls that return: zero errors exactly for the well-formed
\* policies (the claim fails only where the filter loop panics).
C1_OnReturn ==
    pc = "returned" => (errors = <<>> <=> WellFormed(p))

\* C2: the "src_registry_id, dest_registry_id" error is reported if and only
\* if SrcRegistryID and DestRegistryID are both 0 or both non-zero, whatever
\* the other fields hold, and it is reported once.
C2_RegistryError ==
    Terminated =>
        /\ Has(FldRegistry, MsgRegistry) <=> BothOrNeitherLocal(p)
        /\ Count(FldRegistry) = (IF BothOrNeitherLocal(p) THEN 1 ELSE 0)

\* C2 witness: exactly one registry is local, other checks fail, and the
\* registry error is absent from the reported errors.
C2_Witness ==
    /\ pc = "returned"
    /\ p.SrcRegistryID = 0 /\ p.DestRegistryID = 5
    /\ Keys = <<"name", "src_namespaces", "filters", "trigger">>

\* C3: all applicable errors are accumulated, in the fixed order name,
\* registry, src_namespaces, filters, trigger; no failing check suppresses a
\* later one.
C3_AllApplicableInOrder ==
    Terminated => Keys = ApplicableKeys(p)

\* C3 on the calls that return: the reported fields are exactly the
\* applicable ones, in order.
C3_OnReturn ==
    pc = "returned" => Keys = ApplicableKeys(p)

\* C4 as stated: the two Trigger checks both fire for a trigger of unknown
\* type that also lacks Settings.
C4_BothTriggerChecksFire ==
    (/\ pc = "returned"
     /\ BadTriggerType(p)
     /\ p.Trigger.Settings.isNil)
        => /\ Has("trigger", MsgInvalidTriggerType)
           /\ Has("trigger", MsgCronEmpty)

\* C4 amended: the two Trigger checks exclude each other; no validation
\* reports both the invalid-trigger-type error and the cron error, and at
\* most one trigger error is ever reported.
C4_TriggerChecksExclusive ==
    /\ ~(Has("trigger", MsgInvalidTriggerType) /\ Has("trigger", MsgCronEmpty))
    /\ Count("trigger") <= 1

\* C4 witness: unknown trigger type without Settings, reported as an invalid
\* trigger type only.
C4_Witness ==
    /\ pc = "returned"
    /\ BadTriggerType(p)
    /\ p.Trigger.Settings.isNil
    /\ Has("trigger", MsgInvalidTriggerType)
    /\ ~Has("trigger", MsgCronEmpty)

\* C5: Policy.Valid returns normally for every Policy value, a nil entry in
\* Filters, nil slices and nil Settings included.
C5_NeverPanics ==
    pc # "panicked"

\* C6: at most one src_namespaces error; "cannot be empty" exactly when
\* SrcNamespaces has length 0, "cannot contain empty namespace" exactly (and
\* once) when it is non-empty and has an empty entry; never both.
C6_SrcNamespacesError ==
    Terminated =>
        /\ Count("src_namespaces") <= 1
        /\ Has("src_namespaces", MsgCannotBeEmpty) <=> len(p.SrcNamespaces) = 0
        /\ Has("src_namespaces", MsgEmptyNamespace)
              <=> (len(p.SrcNamespaces) > 0 /\ HasEmptyNamespace(p))

\* C6 witness: ["library", "", "library"] reported once as containing an
\* empty namespace.
C6_Witness ==
    /\ Terminated
    /\ p.SrcNamespaces.elems = <<"library", "", "library">>
    /\ Has("src_namespaces", MsgEmptyNamespace)
    /\ Count("src_namespaces") = 1

\* C7: "invalid filter type" is reported exactly once when some Filter has a
\* Type outside {resource, name, tag, label}, wherever it sits, and no
\* filters error is reported when every Type is in the set.
C7_FiltersError ==
    Terminated =>
        /\ HasBadFilter(p) =>
              (Has("filters", MsgInvalidFilterType) /\ Count("filters") = 1)
        /\ ~HasBadFilter(p) => Count("filters") = 0

\* C7 on the calls that return.
C7_OnReturn ==
    pc = "returned" =>
        /\ HasBadFilter(p) =>
              (Has("filters", MsgInvalidFilterType) /\ Count("filters") = 1)
        /\ ~HasBadFilter(p) => Count("filters") = 0

\* C8: with a scheduled trigger the cron error is reported if and only if
\* Settings is nil or Cron is empty; a scheduled trigger with a cron string,
\* and a manual or event_based trigger, produce no trigger error.
C8_CronError ==
    (Terminated /\ ~p.Trigger.isNil) =>
        /\ p.Trigger.Type = TriggerTypeScheduled =>
              (Has("trigger", MsgCronEmpty) <=> ScheduledWithoutCron(p))
        /\ (p.Trigger.Type = TriggerTypeScheduled /\ ~ScheduledWithoutCron(p)) =>
              Count("trigger") = 0
        /\ p.Trigger.Type \in {TriggerTypeManual, TriggerTypeEventBased} =>
              Count("trigger") = 0

\* C8 on the calls that return.
C8_OnReturn ==
    (pc = "returned" /\ ~p.Trigger.isNil) =>
        /\ p.Trigger.Type = TriggerTypeScheduled =>
              (Has("trigger", MsgCronEmpty) <=> ScheduledWithoutCron(p))
        /\ (p.Trigger.Type = TriggerTypeScheduled /\ ~ScheduledWithoutCron(p)) =>
              Count("trigger") = 0
        /\ p.Trigger.Type \in {TriggerTypeManual, TriggerTypeEventBased} =>
              Count("trigger") = 0

\* C9: a nil Trigger produces no trigger error; a Trigger of unknown type is
\* reported as "invalid trigger type" and the cron check does not fire.
C9_NilAndUnknownTrigger ==
    Terminated =>
        /\ p.Trigger.isNil => Count("trigger") = 0
        /\ BadTriggerType(p) =>
              (Has("trigger", MsgInvalidTriggerType) /\ ~Has("trigger", MsgCronEmpty))

\* C9 on the calls that return.
C9_OnReturn ==
    pc = "returned" =>
        /\ p.Trigger.isNil => Count("trigger") = 0
        /\ BadTriggerType(p) =>
              (Has("trigger", MsgInvalidTriggerType) /\ ~Has("trigger", MsgCronEmpty))

\* C10: the name error "cannot be empty" is reported if and only if Name has
\* zero length, whatever the other checks find, and it is reported once.
C10_NameError ==
    Terminated =>
        /\ Has("name", MsgCannotBeEmpty) <=> p.Name = ""
        /\ Count("name") = (IF p.Name = "" THEN 1 ELSE 0)

\* C10 witness: an empty Name on an otherwise well-formed policy yields the
\* name error alone.
C10_Witness ==
    /\ pc = "returned"
    /\ p.Name = ""
    /\ errors = <<Error("name", MsgCannotBeEmpty)>>

====
